---- MODULE Spec2Model ----
(***************************************************************************)
(* A model of speakable-time: the approximation engine                     *)
(* (Approximator::difference and match_relative), the StateFormatter that  *)
(* drives a FormatGenerator, and the two shipped generators.               *)
(*                                                                         *)
(* A chrono Duration is whole seconds plus a sub-second part counted in    *)
(* ticks, TicksPerSecond to the second, so that the truncating             *)
(* num_seconds/num_minutes/... queries are real conversions.  Instants are *)
(* Durations since 2024-01-01 00:00:00 local time (a Monday); the original *)
(* timestamp of a call lies inside 2024, the compared one anywhere.        *)
(* Strings are sequences of one-character strings.                         *)
(***************************************************************************)
EXTENDS Integers, Sequences, FiniteSets, TLC

VARIABLES
    filter,     \* Approximator.filter: the configured filter list
    obj,        \* Approximator.obj: the configured renderer
    pc,         \* position of the difference call: "idle", "loop", "returned"
    dt,         \* difference: the original timestamp
    against,    \* difference: the compared timestamp
    duration,   \* difference: the duration accumulator
    state,      \* difference: the StateCollection being built
    item,       \* difference: index of the next filter of the loop
    fmt,        \* the StateFormatter returned by difference
    out,        \* the strings returned by the format calls made so far
    parses,     \* number of parse() runs on the StateFormatter
    map,        \* Translator.map: the translation table
    template,   \* Translator::format: the format argument
    pos,        \* Translator::format: index of the next character, 0 before a call
    scan,       \* Translator::format: the locals in_match, in_brace, s and cap
    result,     \* Translator::format: the Result returned, as an Option
    calls,      \* the locals of the difference calls that share the Approximator
    answer      \* the last call of a TimeBoundary or Words function and its result

\* The state of one difference call and of the StateFormatter it returns.
avars == <<pc, dt, against, duration, state, item, fmt, out, parses>>

\* The state of a Translator and of its format call.
tvars == <<map, template, pos, scan, result>>

vars == <<filter, obj, avars, tvars, calls, answer>>

----------------------------------------------------------------------------
(* Bounds of the model.                                                    *)

MaxFilters == 2
MaxCount == 3
MaxUpto == 2
MaxParses == 2
TicksPerSecond == 2
MaxTemplate == 4

----------------------------------------------------------------------------
(* enums: unit lengths in seconds.                                         *)

WEEK == 7 * 24 * 60 * 60
MONTH == 30 * 24 * 60 * 60
YEAR == 365 * 24 * 60 * 60

----------------------------------------------------------------------------
(* time_boundary.rs                                                        *)

TimeBoundary == {"Second", "Minute", "Hour", "Day", "Week", "Month", "Year"}

\* derive(Ord) on the enum: declaration order, Second lowest.
TimeBoundaryOrd(b) ==
    CASE b = "Second" -> 0
      [] b = "Minute" -> 1
      [] b = "Hour" -> 2
      [] b = "Day" -> 3
      [] b = "Week" -> 4
      [] b = "Month" -> 5
      [] b = "Year" -> 6

all == <<"Year", "Month", "Week", "Day", "Hour", "Minute", "Second">>

TimeBoundaryIntoWords(b) == b

----------------------------------------------------------------------------
(* chrono::Duration and DateTime<Local> as the engine uses them.  A        *)
(* Duration is whole seconds plus a sub-second part, sub ticks with        *)
(* 0 <= sub < TicksPerSecond; an instant is the Duration since the epoch.  *)

seconds(n) == [secs |-> n, sub |-> 0]
minutes(n) == seconds(n * 60)
hours(n) == seconds(n * 3600)
days(n) == seconds(n * 86400)
weeks(n) == seconds(n * 604800)

DurationAdd(a, b) ==
    IF a.sub + b.sub >= TicksPerSecond
    THEN [secs |-> a.secs + b.secs + 1, sub |-> a.sub + b.sub - TicksPerSecond]
    ELSE [secs |-> a.secs + b.secs, sub |-> a.sub + b.sub]

DurationSub(a, b) ==
    IF a.sub - b.sub < 0
    THEN [secs |-> a.secs - b.secs - 1, sub |-> a.sub - b.sub + TicksPerSecond]
    ELSE [secs |-> a.secs - b.secs, sub |-> a.sub - b.sub]

DurationAbs(a) ==
    IF a.secs < 0 /\ a.sub > 0
    THEN [secs |-> -(a.secs + 1), sub |-> TicksPerSecond - a.sub]
    ELSE [secs |-> IF a.secs < 0 THEN -a.secs ELSE a.secs, sub |-> a.sub]

DurationGt(a, b) == a.secs > b.secs \/ (a.secs = b.secs /\ a.sub > b.sub)

\* Integer division of Rust: towards zero.
TruncDiv(a, b) == IF a >= 0 THEN a \div b ELSE -((-a) \div b)

num_seconds(d) == IF d.secs < 0 /\ d.sub > 0 THEN d.secs + 1 ELSE d.secs
num_minutes(d) == TruncDiv(num_seconds(d), 60)
num_hours(d) == TruncDiv(num_seconds(d), 3600)
num_days(d) == TruncDiv(num_seconds(d), 86400)
num_weeks(d) == TruncDiv(num_days(d), 7)

absolute_duration(dt1, dt2) == DurationAbs(DurationSub(dt1, dt2))

\* DateTime accessors, for instants from the epoch on.
date_naive(t) == t.secs \div 86400
time(t) == [secs |-> t.secs % 86400, sub |-> t.sub]
hour(t) == (t.secs % 86400) \div 3600

\* 2024 is a leap year; first day (0-based) of each month.
MonthStart == <<0, 31, 60, 91, 121, 152, 182, 213, 244, 274, 305, 335>>
month0(t) == CHOOSE m \in 0..11 :
    /\ MonthStart[m + 1] <= date_naive(t)
    /\ (m = 11 \/ date_naive(t) < MonthStart[m + 2])

ChronoWeekday == <<"Mon", "Tue", "Wed", "Thu", "Fri", "Sat", "Sun">>
weekday(t) == ChronoWeekday[(date_naive(t) % 7) + 1]

----------------------------------------------------------------------------
(* time_boundary.rs: within and highest.                                   *)

\* TimeBoundary::within.
within(b, t1, t2) ==
    LET abs == absolute_duration(t1, t2)
    IN  CASE b = "Second" -> num_seconds(abs) < 60
          [] b = "Minute" -> num_minutes(abs) > 1 /\ num_hours(abs) = 0
          [] b = "Hour" -> num_hours(abs) > 1 /\ num_days(abs) = 0
          [] b = "Day" -> num_days(abs) > 1 /\ num_days(abs) < 30
          [] b = "Week" -> num_weeks(abs) > 1 /\ num_days(abs) < 30
          [] b = "Month" -> num_days(abs) > 30 /\ num_days(abs) < 365
          [] b = "Year" -> num_days(abs) > 365

\* The loop of TimeBoundary::highest from the i-th unit of all on, as an
\* Option.
RECURSIVE HighestFrom(_, _, _)
HighestFrom(i, t1, t2) ==
    IF i > Len(all) THEN <<>>
    ELSE IF within(all[i], t1, t2) THEN <<all[i]>>
    ELSE HighestFrom(i + 1, t1, t2)

\* TimeBoundary::highest.
highest(t1, t2) == HighestFrom(1, t1, t2)

----------------------------------------------------------------------------
(* enums/mod.rs                                                            *)

MonthFromU32(n) ==
    <<"January", "February", "March", "April", "May", "June", "July",
      "August", "September", "October", "November", "December">>[n + 1]

WeekdayFromChrono(value) ==
    CASE value = "Mon" -> "Monday"
      [] value = "Tue" -> "Tuesday"
      [] value = "Wed" -> "Wednesday"
      [] value = "Thu" -> "Thursday"
      [] value = "Fri" -> "Friday"
      [] value = "Sat" -> "Saturday"
      [] value = "Sun" -> "Sunday"

----------------------------------------------------------------------------
(* approximate/mod.rs: ApproximateState and ApproximateFilter.             *)

Value(b, n) == [type |-> "Value", unit |-> b, count |-> n]
InPast(p) == [type |-> "InPast", past |-> p]
ApproximateTimeState(v) == [type |-> "ApproximateTime", approx |-> v]
DayName(w) == [type |-> "DayName", day |-> w]
MonthName(m) == [type |-> "MonthName", month |-> m]
HourShorthandState(s) == [type |-> "HourShorthand", text |-> s]
WithDate(d) == [type |-> "WithDate", date |-> d]
WithTime(t) == [type |-> "WithTime", time |-> t]

TopRounds(n) == [kind |-> "TopRounds", count |-> n]
TopRoundsMaxRelative(n, b) == [kind |-> "TopRoundsMaxRelative", count |-> n, relative |-> b]
RoundWithBound(b, n) == [kind |-> "RoundWithBound", relative |-> b, upto |-> n]
Round(b) == [kind |-> "Round", relative |-> b]
DayNameWithinWeek == [kind |-> "DayNameWithinWeek"]
MonthNameWithinYear == [kind |-> "MonthNameWithinYear"]
HourShorthand == [kind |-> "HourShorthand"]
ApproximateTime == [kind |-> "ApproximateTime"]
Relative == [kind |-> "Relative"]

----------------------------------------------------------------------------
(* approximate/mod.rs: match_relative.  upto is an Option: <<>> or <<u>>.  *)
(* The result is the new accumulator and the Option of the Value.          *)

\* result.0: the count of whole units in the accumulator.
RelativeCount(relative, dur) ==
    CASE relative = "Year" -> TruncDiv(num_seconds(dur), YEAR)
      [] relative = "Month" -> TruncDiv(num_seconds(dur), MONTH)
      [] relative = "Week" -> num_weeks(dur)
      [] relative = "Day" -> num_days(dur)
      [] relative = "Hour" -> num_hours(dur)
      [] relative = "Minute" -> num_minutes(dur)
      [] relative = "Second" -> num_seconds(dur)

\* Variant: a month is taken back out as 31 days.
RelativeDuration_Month31(relative, count) ==
    CASE relative = "Year" -> seconds(count * YEAR)
      [] relative = "Month" -> days(count * 31)
      [] relative = "Week" -> weeks(count)
      [] relative = "Day" -> days(count)
      [] relative = "Hour" -> hours(count)
      [] relative = "Minute" -> minutes(count)
      [] relative = "Second" -> seconds(count)

\* result.1: the duration of count units.
RelativeDuration(relative, count) ==
    CASE relative = "Year" -> seconds(count * YEAR)
      [] relative = "Month" -> seconds(count * MONTH)
      [] relative = "Week" -> weeks(count)
      [] relative = "Day" -> days(count)
      [] relative = "Hour" -> hours(count)
      [] relative = "Minute" -> minutes(count)
      [] relative = "Second" -> seconds(count)

\* Variant: a count above the bound is cut down to the bound.
match_relative_Clamp(dur, relative, upto) ==
    LET count == RelativeCount(relative, dur)
        used == IF upto # <<>> /\ count > upto[1] THEN upto[1] ELSE count
    IN  IF used > 0
        THEN [duration |-> DurationSub(dur, RelativeDuration(relative, used)),
              states |-> <<Value(relative, used)>>]
        ELSE [duration |-> dur, states |-> <<>>]

\* Variant: the units are subtracted before the bound is looked at.
match_relative_EagerSubtract(dur, relative, upto) ==
    LET count == RelativeCount(relative, dur)
        taken == /\ count > 0
                 /\ (upto = <<>> \/ count <= upto[1])
    IN  [duration |-> DurationSub(dur, RelativeDuration(relative, count)),
         states |-> IF taken THEN <<Value(relative, count)>> ELSE <<>>]

\* Variant: the Value is pushed and the accumulator is left as it was.
match_relative_KeepsAccumulator(dur, relative, upto) ==
    LET count == RelativeCount(relative, dur)
        taken == /\ count > 0
                 /\ (upto = <<>> \/ count <= upto[1])
    IN  [duration |-> dur,
         states |-> IF taken THEN <<Value(relative, count)>> ELSE <<>>]

match_relative(dur, relative, upto) ==
    LET count == RelativeCount(relative, dur)
        taken == /\ count > 0
                 /\ (upto = <<>> \/ count <= upto[1])
    IN  IF taken
        THEN [duration |-> DurationSub(dur, RelativeDuration(relative, count)),
              states |-> <<Value(relative, count)>>]
        ELSE [duration |-> dur, states |-> <<>>]

----------------------------------------------------------------------------
(* approximate/mod.rs: the arms of the filter loop of difference.  Each    *)
(* takes the call's timestamps and the accumulator and gives the new       *)
(* accumulator and the states it pushes.                                   *)

\* Variant: a unit with quotient zero counts towards the limit.
RECURSIVE TopRoundsScan_CountsEmpty(_, _, _, _, _)
TopRoundsScan_CountsEmpty(dur, count, i, added, pushed) ==
    IF i > Len(all) \/ added >= count
    THEN [duration |-> dur, states |-> pushed]
    ELSE LET r == match_relative(dur, all[i], <<>>)
         IN  TopRoundsScan_CountsEmpty(r.duration, count, i + 1, added + 1,
                                       pushed \o r.states)

\* Variant: every unit is counted on the accumulator the scan began with.
RECURSIVE TopRoundsScan_KeepsDuration(_, _, _, _, _)
TopRoundsScan_KeepsDuration(dur, count, i, added, pushed) ==
    IF i > Len(all) \/ added >= count
    THEN [duration |-> dur, states |-> pushed]
    ELSE LET r == match_relative(dur, all[i], <<>>)
         IN  IF r.states # <<>>
             THEN TopRoundsScan_KeepsDuration(dur, count, i + 1, added + 1, pushed \o r.states)
             ELSE TopRoundsScan_KeepsDuration(dur, count, i + 1, added, pushed)

RECURSIVE TopRoundsScan(_, _, _, _, _)
TopRoundsScan(dur, count, i, added, pushed) ==
    IF i > Len(all) \/ added >= count
    THEN [duration |-> dur, states |-> pushed]
    ELSE LET r == match_relative(dur, all[i], <<>>)
         IN  IF r.states # <<>>
             THEN TopRoundsScan(r.duration, count, i + 1, added + 1, pushed \o r.states)
             ELSE TopRoundsScan(dur, count, i + 1, added, pushed)

\* Variant: the units coarser than the cap are not skipped.
RECURSIVE TopRoundsMaxRelativeScan_NoSkip(_, _, _, _, _, _)
TopRoundsMaxRelativeScan_NoSkip(dur, count, relative, i, added, pushed) ==
    IF i > Len(all) \/ added >= count
    THEN [duration |-> dur, states |-> pushed]
    ELSE LET r == match_relative(dur, all[i], <<>>)
         IN  IF r.states # <<>>
             THEN TopRoundsMaxRelativeScan_NoSkip(r.duration, count, relative, i + 1,
                                                  added + 1, pushed \o r.states)
             ELSE TopRoundsMaxRelativeScan_NoSkip(dur, count, relative, i + 1, added, pushed)

RECURSIVE TopRoundsMaxRelativeScan(_, _, _, _, _, _)
TopRoundsMaxRelativeScan(dur, count, relative, i, added, pushed) ==
    IF i > Len(all) \/ added >= count
    THEN [duration |-> dur, states |-> pushed]
    ELSE IF TimeBoundaryOrd(relative) < TimeBoundaryOrd(all[i])
         THEN TopRoundsMaxRelativeScan(dur, count, relative, i + 1, added, pushed)
         ELSE LET r == match_relative(dur, all[i], <<>>)
              IN  IF r.states # <<>>
                  THEN TopRoundsMaxRelativeScan(r.duration, count, relative, i + 1,
                                                added + 1, pushed \o r.states)
                  ELSE TopRoundsMaxRelativeScan(dur, count, relative, i + 1, added, pushed)

\* Variant: the sign is read off the accumulator.
RelativeArm_FromDuration(orig, cmp, dur) ==
    [duration |-> dur, states |-> <<InPast(DurationGt(dur, seconds(0)))>>]

RelativeArm(orig, cmp, dur) ==
    [duration |-> dur, states |-> <<InPast(DurationGt(DurationSub(cmp, orig), seconds(0)))>>]

\* Variant: hour 6 still counts as night.
ApproximateTimeArm_NightThroughSix(orig, cmp, dur) ==
    LET h == hour(orig)
        approx_time == IF h <= 6 THEN "Night"
                       ELSE IF h < 12 THEN "Morning"
                       ELSE IF h < 18 THEN "Afternoon"
                       ELSE "Evening"
    IN  [duration |-> dur, states |-> <<ApproximateTimeState(approx_time)>>]

ApproximateTimeArm(orig, cmp, dur) ==
    LET h == hour(orig)
        approx_time == IF h < 6 THEN "Night"
                       ELSE IF h < 12 THEN "Morning"
                       ELSE IF h < 18 THEN "Afternoon"
                       ELSE "Evening"
    IN  [duration |-> dur, states |-> <<ApproximateTimeState(approx_time)>>]

HourShorthandArm(orig, cmp, dur) ==
    [duration |-> dur,
     states |-> IF hour(orig) = 0 THEN <<HourShorthandState("midnight")>>
                ELSE IF hour(orig) = 12 THEN <<HourShorthandState("noon")>>
                ELSE <<>>]

\* Variant: the test is made on the whole difference of the timestamps.
MonthNameWithinYearArm_Original(orig, cmp, dur) ==
    [duration |-> dur,
     states |-> IF num_seconds(absolute_duration(orig, cmp)) < YEAR
                THEN <<MonthName(MonthFromU32(month0(orig)))>>
                ELSE <<>>]

MonthNameWithinYearArm(orig, cmp, dur) ==
    [duration |-> dur,
     states |-> IF num_seconds(dur) < YEAR
                THEN <<MonthName(MonthFromU32(month0(orig)))>>
                ELSE <<>>]

\* Variant: a difference of exactly a week still counts as within it.
DayNameWithinWeekArm_Inclusive(orig, cmp, dur) ==
    [duration |-> dur,
     states |-> IF num_seconds(dur) <= WEEK
                THEN <<DayName(WeekdayFromChrono(weekday(orig)))>>
                ELSE <<>>]

DayNameWithinWeekArm(orig, cmp, dur) ==
    [duration |-> dur,
     states |-> IF num_seconds(dur) < WEEK
                THEN <<DayName(WeekdayFromChrono(weekday(orig)))>>
                ELSE <<>>]

FilterArm(f, orig, cmp, dur) ==
    CASE f.kind = "TopRounds" -> TopRoundsScan(dur, f.count, 1, 0, <<>>)
      [] f.kind = "TopRoundsMaxRelative" ->
            TopRoundsMaxRelativeScan(dur, f.count, f.relative, 1, 0, <<>>)
      [] f.kind = "Relative" -> RelativeArm(orig, cmp, dur)
      [] f.kind = "ApproximateTime" -> ApproximateTimeArm(orig, cmp, dur)
      [] f.kind = "HourShorthand" -> HourShorthandArm(orig, cmp, dur)
      [] f.kind = "MonthNameWithinYear" -> MonthNameWithinYearArm(orig, cmp, dur)
      [] f.kind = "DayNameWithinWeek" -> DayNameWithinWeekArm(orig, cmp, dur)
      [] f.kind = "Round" -> match_relative(dur, f.relative, <<>>)
      [] f.kind = "RoundWithBound" -> match_relative(dur, f.relative, <<f.upto>>)

----------------------------------------------------------------------------
(* enums/words.rs: the words the generators use, and their spelling.       *)

plural(w) ==
    CASE w = "Year" -> "YearPlural"
      [] w = "Week" -> "WeekPlural"
      [] w = "Month" -> "MonthPlural"
      [] w = "Day" -> "DayPlural"
      [] w = "Hour" -> "HourPlural"
      [] w = "Minute" -> "MinutePlural"
      [] w = "Second" -> "SecondPlural"
      [] OTHER -> w

DecimalDigit == <<"0", "1", "2", "3", "4", "5", "6", "7", "8", "9">>

\* Display of an i64.
RECURSIVE I64Display(_)
I64Display(n) ==
    IF n < 0 THEN <<"-">> \o I64Display(-n)
    ELSE IF n < 10 THEN <<DecimalDigit[n + 1]>>
    ELSE I64Display(n \div 10) \o <<DecimalDigit[(n % 10) + 1]>>

\* The words Suffix(n) of the model, Suffix(0) first; n is a u8, of which
\* the model has one more than Words::from_str knows.
SuffixWords ==
    <<"Suffix(0)", "Suffix(1)", "Suffix(2)", "Suffix(3)", "Suffix(4)", "Suffix(5)",
      "Suffix(6)", "Suffix(7)", "Suffix(8)", "Suffix(9)", "Suffix(10)">>

IsSuffixWord(w) == \E n \in 1..Len(SuffixWords) : SuffixWords[n] = w

\* The number n of the word Suffix(n).
SuffixNumber(w) == (CHOOSE n \in 1..Len(SuffixWords) : SuffixWords[n] = w) - 1

\* impl Display for Words, the arms of the words without a number.
WordsDisplayPlain(w) ==
    CASE w = "January" -> <<"j", "a", "n", "u", "a", "r", "y">>
      [] w = "February" -> <<"f", "e", "b", "r", "u", "a", "r", "y">>
      [] w = "March" -> <<"m", "a", "r", "c", "h">>
      [] w = "April" -> <<"a", "p", "r", "i", "l">>
      [] w = "May" -> <<"m", "a", "y">>
      [] w = "June" -> <<"j", "u", "n", "e">>
      [] w = "July" -> <<"j", "u", "l", "y">>
      [] w = "August" -> <<"a", "u", "g", "u", "s", "t">>
      [] w = "September" -> <<"s", "e", "p", "t", "e", "m", "b", "e", "r">>
      [] w = "October" -> <<"o", "c", "t", "o", "b", "e", "r">>
      [] w = "November" -> <<"n", "o", "v", "e", "m", "b", "e", "r">>
      [] w = "December" -> <<"d", "e", "c", "e", "m", "b", "e", "r">>
      [] w = "Noon" -> <<"n", "o", "o", "n">>
      [] w = "Midnight" -> <<"m", "i", "d", "n", "i", "g", "h", "t">>
      [] w = "PM" -> <<"p", "m">>
      [] w = "AM" -> <<"a", "m">>
      [] w = "A" -> <<"a">>
      [] w = "In" -> <<"i", "n">>
      [] w = "An" -> <<"a", "n">>
      [] w = "And" -> <<"a", "n", "d">>
      [] w = "FromNow" -> <<"f", "r", "o", "m", " ", "n", "o", "w">>
      [] w = "At" -> <<"a", "t">>
      [] w = "Ago" -> <<"a", "g", "o">>
      [] w = "Last" -> <<"l", "a", "s", "t">>
      [] w = "Year" -> <<"y", "e", "a", "r">>
      [] w = "Week" -> <<"w", "e", "e", "k">>
      [] w = "Month" -> <<"m", "o", "n", "t", "h">>
      [] w = "Day" -> <<"d", "a", "y">>
      [] w = "Hour" -> <<"h", "o", "u", "r">>
      [] w = "Minute" -> <<"m", "i", "n", "u", "t", "e">>
      [] w = "Second" -> <<"s", "e", "c", "o", "n", "d">>
      [] w = "YearPlural" -> <<"y", "e", "a", "r", "s">>
      [] w = "WeekPlural" -> <<"w", "e", "e", "k", "s">>
      [] w = "MonthPlural" -> <<"m", "o", "n", "t", "h", "s">>
      [] w = "DayPlural" -> <<"d", "a", "y", "s">>
      [] w = "HourPlural" -> <<"h", "o", "u", "r", "s">>
      [] w = "MinutePlural" -> <<"m", "i", "n", "u", "t", "e", "s">>
      [] w = "SecondPlural" -> <<"s", "e", "c", "o", "n", "d", "s">>
      [] w = "Yesterday" -> <<"y", "e", "s", "t", "e", "r", "d", "a", "y">>
      [] w = "Today" -> <<"t", "o", "d", "a", "y">>
      [] w = "Tomorrow" -> <<"t", "o", "m", "o", "r", "r", "o", "w">>
      [] w = "Sunday" -> <<"s", "u", "n", "d", "a", "y">>
      [] w = "Monday" -> <<"m", "o", "n", "d", "a", "y">>
      [] w = "Tuesday" -> <<"t", "u", "e", "s", "d", "a", "y">>
      [] w = "Wednesday" -> <<"w", "e", "d", "n", "e", "s", "d", "a", "y">>
      [] w = "Thursday" -> <<"t", "h", "u", "r", "s", "d", "a", "y">>
      [] w = "Friday" -> <<"f", "r", "i", "d", "a", "y">>
      [] w = "Saturday" -> <<"s", "a", "t", "u", "r", "d", "a", "y">>

\* Variant: the number of a suffix is spelled without the underscore.
WordsDisplay_SuffixBare(w) ==
    IF IsSuffixWord(w)
    THEN <<"s", "u", "f", "f", "i", "x">> \o I64Display(SuffixNumber(w))
    ELSE WordsDisplayPlain(w)

\* impl Display for Words.
WordsDisplay(w) ==
    IF IsSuffixWord(w)
    THEN <<"s", "u", "f", "f", "i", "x", "_">> \o I64Display(SuffixNumber(w))
    ELSE WordsDisplayPlain(w)

\* impl FromStr for Words: the word spelled by str, as an Option.
WordsFromStr(str) ==
    CASE str = <<"j", "a", "n", "u", "a", "r", "y">> -> <<"January">>
      [] str = <<"f", "e", "b", "r", "u", "a", "r", "y">> -> <<"February">>
      [] str = <<"m", "a", "r", "c", "h">> -> <<"March">>
      [] str = <<"a", "p", "r", "i", "l">> -> <<"April">>
      [] str = <<"m", "a", "y">> -> <<"May">>
      [] str = <<"j", "u", "n", "e">> -> <<"June">>
      [] str = <<"j", "u", "l", "y">> -> <<"July">>
      [] str = <<"a", "u", "g", "u", "s", "t">> -> <<"August">>
      [] str = <<"s", "e", "p", "t", "e", "m", "b", "e", "r">> -> <<"September">>
      [] str = <<"o", "c", "t", "o", "b", "e", "r">> -> <<"October">>
      [] str = <<"n", "o", "v", "e", "m", "b", "e", "r">> -> <<"November">>
      [] str = <<"d", "e", "c", "e", "m", "b", "e", "r">> -> <<"December">>
      [] str = <<"s", "u", "f", "f", "i", "x", "_", "0">> -> <<"Suffix(0)">>
      [] str = <<"s", "u", "f", "f", "i", "x", "_", "1">> -> <<"Suffix(1)">>
      [] str = <<"s", "u", "f", "f", "i", "x", "_", "2">> -> <<"Suffix(2)">>
      [] str = <<"s", "u", "f", "f", "i", "x", "_", "3">> -> <<"Suffix(3)">>
      [] str = <<"s", "u", "f", "f", "i", "x", "_", "4">> -> <<"Suffix(4)">>
      [] str = <<"s", "u", "f", "f", "i", "x", "_", "5">> -> <<"Suffix(5)">>
      [] str = <<"s", "u", "f", "f", "i", "x", "_", "6">> -> <<"Suffix(6)">>
      [] str = <<"s", "u", "f", "f", "i", "x", "_", "7">> -> <<"Suffix(7)">>
      [] str = <<"s", "u", "f", "f", "i", "x", "_", "8">> -> <<"Suffix(8)">>
      [] str = <<"s", "u", "f", "f", "i", "x", "_", "9">> -> <<"Suffix(9)">>
      [] str = <<"n", "o", "o", "n">> -> <<"Noon">>
      [] str = <<"m", "i", "d", "n", "i", "g", "h", "t">> -> <<"Midnight">>
      [] str = <<"p", "m">> -> <<"PM">>
      [] str = <<"a", "m">> -> <<"AM">>
      [] str = <<"a">> -> <<"A">>
      [] str = <<"i", "n">> -> <<"In">>
      [] str = <<"a", "n">> -> <<"An">>
      [] str = <<"a", "n", "d">> -> <<"And">>
      [] str = <<"f", "r", "o", "m", " ", "n", "o", "w">> -> <<"FromNow">>
      [] str = <<"a", "t">> -> <<"At">>
      [] str = <<"a", "g", "o">> -> <<"Ago">>
      [] str = <<"l", "a", "s", "t">> -> <<"Last">>
      [] str = <<"y", "e", "a", "r">> -> <<"Year">>
      [] str = <<"w", "e", "e", "k">> -> <<"Week">>
      [] str = <<"m", "o", "n", "t", "h">> -> <<"Month">>
      [] str = <<"d", "a", "y">> -> <<"Day">>
      [] str = <<"h", "o", "u", "r">> -> <<"Hour">>
      [] str = <<"m", "i", "n", "u", "t", "e">> -> <<"Minute">>
      [] str = <<"s", "e", "c", "o", "n", "d">> -> <<"Second">>
      [] str = <<"y", "e", "a", "r", "s">> -> <<"YearPlural">>
      [] str = <<"w", "e", "e", "k", "s">> -> <<"WeekPlural">>
      [] str = <<"m", "o", "n", "t", "h", "s">> -> <<"MonthPlural">>
      [] str = <<"d", "a", "y", "s">> -> <<"DayPlural">>
      [] str = <<"h", "o", "u", "r", "s">> -> <<"HourPlural">>
      [] str = <<"m", "i", "n", "u", "t", "e", "s">> -> <<"MinutePlural">>
      [] str = <<"s", "e", "c", "o", "n", "d", "s">> -> <<"SecondPlural">>
      [] str = <<"y", "e", "s", "t", "e", "r", "d", "a", "y">> -> <<"Yesterday">>
      [] str = <<"t", "o", "d", "a", "y">> -> <<"Today">>
      [] str = <<"t", "o", "m", "o", "r", "r", "o", "w">> -> <<"Tomorrow">>
      [] str = <<"s", "u", "n", "d", "a", "y">> -> <<"Sunday">>
      [] str = <<"m", "o", "n", "d", "a", "y">> -> <<"Monday">>
      [] str = <<"t", "u", "e", "s", "d", "a", "y">> -> <<"Tuesday">>
      [] str = <<"w", "e", "d", "n", "e", "s", "d", "a", "y">> -> <<"Wednesday">>
      [] str = <<"t", "h", "u", "r", "s", "d", "a", "y">> -> <<"Thursday">>
      [] str = <<"f", "r", "i", "d", "a", "y">> -> <<"Friday">>
      [] str = <<"s", "a", "t", "u", "r", "d", "a", "y">> -> <<"Saturday">>
      [] OTHER -> <<>>

\* The map of DEFAULT_TRANSLATION, built without the translation feature.
DEFAULT_TRANSLATION ==
    ("January" :> <<"J", "a", "n", "u", "a", "r", "y">>)
    @@ ("February" :> <<"F", "e", "b", "r", "u", "a", "r", "y">>)
    @@ ("March" :> <<"M", "a", "r", "c", "h">>)
    @@ ("April" :> <<"A", "p", "r", "i", "l">>)
    @@ ("May" :> <<"M", "a", "y">>)
    @@ ("June" :> <<"J", "u", "n", "e">>)
    @@ ("July" :> <<"J", "u", "l", "y">>)
    @@ ("August" :> <<"A", "u", "g", "u", "s", "t">>)
    @@ ("September" :> <<"S", "e", "p", "t", "e", "m", "b", "e", "r">>)
    @@ ("October" :> <<"O", "c", "t", "o", "b", "e", "r">>)
    @@ ("November" :> <<"N", "o", "v", "e", "m", "b", "e", "r">>)
    @@ ("December" :> <<"D", "e", "c", "e", "m", "b", "e", "r">>)
    @@ ("Suffix(0)" :> <<"t", "h">>)
    @@ ("Suffix(1)" :> <<"s", "t">>)
    @@ ("Suffix(2)" :> <<"n", "d">>)
    @@ ("Suffix(3)" :> <<"r", "d">>)
    @@ ("Suffix(4)" :> <<"t", "h">>)
    @@ ("Suffix(5)" :> <<"t", "h">>)
    @@ ("Suffix(6)" :> <<"t", "h">>)
    @@ ("Suffix(7)" :> <<"t", "h">>)
    @@ ("Suffix(8)" :> <<"t", "h">>)
    @@ ("Suffix(9)" :> <<"t", "h">>)
    @@ ("Noon" :> <<"N", "o", "o", "n">>)
    @@ ("Midnight" :> <<"M", "i", "d", "n", "i", "g", "h", "t">>)
    @@ ("PM" :> <<"P", "M">>)
    @@ ("AM" :> <<"A", "M">>)
    @@ ("A" :> <<"a">>)
    @@ ("In" :> <<"i", "n">>)
    @@ ("An" :> <<"a", "n">>)
    @@ ("At" :> <<"a", "t">>)
    @@ ("Ago" :> <<"a", "g", "o">>)
    @@ ("Last" :> <<"l", "a", "s", "t">>)
    @@ ("Year" :> <<"y", "e", "a", "r">>)
    @@ ("Week" :> <<"w", "e", "e", "k">>)
    @@ ("Month" :> <<"m", "o", "n", "t", "h">>)
    @@ ("Day" :> <<"d", "a", "y">>)
    @@ ("Hour" :> <<"h", "o", "u", "r">>)
    @@ ("Minute" :> <<"m", "i", "n", "u", "t", "e">>)
    @@ ("Second" :> <<"s", "e", "c", "o", "n", "d">>)
    @@ ("YearPlural" :> <<"y", "e", "a", "r", "s">>)
    @@ ("WeekPlural" :> <<"w", "e", "e", "k", "s">>)
    @@ ("MonthPlural" :> <<"m", "o", "n", "t", "h", "s">>)
    @@ ("DayPlural" :> <<"d", "a", "y", "s">>)
    @@ ("HourPlural" :> <<"h", "o", "u", "r", "s">>)
    @@ ("MinutePlural" :> <<"m", "i", "n", "u", "t", "e", "s">>)
    @@ ("SecondPlural" :> <<"s", "e", "c", "o", "n", "d", "s">>)
    @@ ("Yesterday" :> <<"Y", "e", "s", "t", "e", "r", "d", "a", "y">>)
    @@ ("Today" :> <<"T", "o", "d", "a", "y">>)
    @@ ("Tomorrow" :> <<"T", "o", "m", "o", "r", "r", "o", "w">>)
    @@ ("Sunday" :> <<"S", "u", "n", "d", "a", "y">>)
    @@ ("Monday" :> <<"M", "o", "n", "d", "a", "y">>)
    @@ ("Tuesday" :> <<"T", "u", "e", "s", "d", "a", "y">>)
    @@ ("Wednesday" :> <<"W", "e", "d", "n", "e", "s", "d", "a", "y">>)
    @@ ("Thursday" :> <<"T", "h", "u", "r", "s", "d", "a", "y">>)
    @@ ("Friday" :> <<"F", "r", "i", "d", "a", "y">>)
    @@ ("Saturday" :> <<"S", "a", "t", "u", "r", "d", "a", "y">>)
    @@ ("And" :> <<"a", "n", "d">>)
    @@ ("FromNow" :> <<"f", "r", "o", "m", " ", "n", "o", "w">>)

----------------------------------------------------------------------------
(* Rust's string formatting as the generators use it.                      *)

\* str::trim on the strings the generators build (their only white space
\* is the space character).
RECURSIVE trim_start(_)
trim_start(str) ==
    IF str # <<>> /\ Head(str) = " " THEN trim_start(Tail(str)) ELSE str

RECURSIVE trim_end(_)
trim_end(str) ==
    IF str # <<>> /\ str[Len(str)] = " "
    THEN trim_end(SubSeq(str, 1, Len(str) - 1))
    ELSE str

trim(str) == trim_end(trim_start(str))

----------------------------------------------------------------------------
(* approximate/format_generator/formats.rs                                 *)

FancyDurationFormat == [kind |-> "FancyDurationFormat", formats |-> <<>>, parsed |-> FALSE]
CoarseRoundFormat == [kind |-> "CoarseRoundFormat", formats |-> <<>>, parsed |-> FALSE]

set_is_parsed(g) == [g EXCEPT !.parsed = TRUE]
is_parsed(g) == g.parsed

IsValueOrInPast(st) == st.type = "Value" \/ st.type = "InPast"

\* add is the same in both generators.
add(g, states) == [g EXCEPT !.formats = g.formats \o SelectSeq(states, IsValueOrInPast)]

FancyLetter(relative) ==
    CASE relative = "Year" -> "y"
      [] relative = "Month" -> "m"
      [] relative = "Week" -> "w"
      [] relative = "Day" -> "d"
      [] relative = "Hour" -> "h"
      [] relative = "Minute" -> "m"
      [] relative = "Second" -> "s"

\* The loop of FancyDurationFormat::format from index x on; acc holds
\* in_past (an Option) and s.
RECURSIVE FancyLoop(_, _, _)
FancyLoop(formats, x, acc) ==
    IF x > Len(formats) THEN acc
    ELSE LET f == formats[x]
         IN  IF f.type = "InPast"
             THEN FancyLoop(formats, x + 1, [acc EXCEPT !.in_past = <<f.past>>])
             ELSE IF f.type = "Value"
             THEN FancyLoop(formats, x + 1,
                    [acc EXCEPT !.s = acc.s \o I64Display(f.count) \o <<FancyLetter(f.unit)>>])
             ELSE FancyLoop(formats, x + 1, acc)

\* Variant: a future difference is marked behind the string, as the coarse
\* generator does.
FancyFormat_FutureSuffix(g) ==
    LET acc == FancyLoop(g.formats, 1, [in_past |-> <<>>, s |-> <<>>])
    IN  IF acc.in_past # <<>>
        THEN IF acc.in_past[1]
             THEN acc.s \o <<" ", "%", "{", "a", "g", "o", "}">>
             ELSE acc.s \o <<" ", "%", "{", "i", "n", "}">>
        ELSE acc.s

FancyFormat(g) ==
    LET acc == FancyLoop(g.formats, 1, [in_past |-> <<>>, s |-> <<>>])
    IN  IF acc.in_past # <<>>
        THEN IF acc.in_past[1]
             THEN acc.s \o <<" ", "%", "{", "a", "g", "o", "}">>
             ELSE <<"%", "{", "i", "n", "}", " ">> \o acc.s
        ELSE acc.s

\* Variant: a count of one takes the plural word too.
CoarseItem_PluralFromOne(formats, x, f) ==
    LET relative0 == TimeBoundaryIntoWords(f.unit)
        relative == IF f.count >= 1 THEN plural(relative0) ELSE relative0
        head == I64Display(f.count) \o <<" ", "%", "{">> \o WordsDisplay(relative)
    IN  IF Len(formats) >= 2 /\ x < Len(formats) - 2
        THEN head \o <<"}", ",", " ">>
        ELSE head \o <<"}", " ">>

\* The text of one Value in CoarseRoundFormat::format; x is the 0-based
\* index of the Value in formats.
CoarseItem(formats, x, f) ==
    LET relative0 == TimeBoundaryIntoWords(f.unit)
        relative == IF f.count > 1 THEN plural(relative0) ELSE relative0
        head == I64Display(f.count) \o <<" ", "%", "{">> \o WordsDisplay(relative)
    IN  IF Len(formats) >= 2 /\ x < Len(formats) - 2
        THEN head \o <<"}", ",", " ">>
        ELSE head \o <<"}", " ">>

\* The loop of CoarseRoundFormat::format from (1-based) index i on; acc
\* holds in_past (an Option), s and last.
RECURSIVE CoarseLoop(_, _, _)
CoarseLoop(formats, i, acc) ==
    IF i > Len(formats) THEN acc
    ELSE LET f == formats[i]
         IN  IF f.type = "InPast"
             THEN CoarseLoop(formats, i + 1, [acc EXCEPT !.in_past = <<f.past>>])
             ELSE IF f.type = "Value"
             THEN CoarseLoop(formats, i + 1,
                    [acc EXCEPT !.s = IF acc.last # <<>> THEN acc.s \o acc.last ELSE acc.s,
                                !.last = CoarseItem(formats, i - 1, f)])
             ELSE CoarseLoop(formats, i + 1, acc)

\* Variant: the future suffix is spelled with an underscore.
CoarseFormat_FromNowUnderscore(g) ==
    LET acc == CoarseLoop(g.formats, 1, [in_past |-> <<>>, s |-> <<>>, last |-> <<>>])
        s == IF acc.last # <<>>
             THEN IF acc.s = <<>>
                  THEN acc.s \o trim(acc.last)
                  ELSE acc.s \o <<"%", "{", "a", "n", "d", "}", " ">> \o trim(acc.last)
             ELSE acc.s
    IN  IF acc.in_past # <<>>
        THEN IF acc.in_past[1]
             THEN s \o <<" ", "%", "{", "a", "g", "o", "}">>
             ELSE s \o <<" ", "%", "{", "f", "r", "o", "m", "_", "n", "o", "w", "}">>
        ELSE s

CoarseFormat(g) ==
    LET acc == CoarseLoop(g.formats, 1, [in_past |-> <<>>, s |-> <<>>, last |-> <<>>])
        s == IF acc.last # <<>>
             THEN IF acc.s = <<>>
                  THEN acc.s \o trim(acc.last)
                  ELSE acc.s \o <<"%", "{", "a", "n", "d", "}", " ">> \o trim(acc.last)
             ELSE acc.s
    IN  IF acc.in_past # <<>>
        THEN IF acc.in_past[1]
             THEN s \o <<" ", "%", "{", "a", "g", "o", "}">>
             ELSE s \o <<" ", "%", "{", "f", "r", "o", "m", " ", "n", "o", "w", "}">>
        ELSE s

\* FormatGenerator::format, dispatched on the generator.
GeneratorFormat(g) ==
    IF g.kind = "CoarseRoundFormat" THEN CoarseFormat(g) ELSE FancyFormat(g)

----------------------------------------------------------------------------
(* approximate/mod.rs: StateFormatter.                                     *)

StateFormatterParse(sf) == [sf EXCEPT !.obj = set_is_parsed(add(sf.obj, sf.states))]

\* Variant: format ingests the collection on every call.
StateFormatterFormat_AlwaysParse(sf) ==
    LET sf1 == StateFormatterParse(sf)
    IN  [sf |-> sf1, str |-> GeneratorFormat(sf1.obj)]

\* format(&mut self): the formatter afterwards and the string returned.
StateFormatterFormat(sf) ==
    LET sf1 == IF ~is_parsed(sf.obj) THEN StateFormatterParse(sf) ELSE sf
    IN  [sf |-> sf1, str |-> GeneratorFormat(sf1.obj)]

\* format_parsed(&self): the string returned.
StateFormatterFormatParsed(sf) ==
    IF is_parsed(sf.obj)
    THEN GeneratorFormat(sf.obj)
    ELSE StateFormatterFormat(sf).str

----------------------------------------------------------------------------
(* translator/mod.rs: the Translator.  A Result is a record: ok with the   *)
(* string, or not ok with the message.                                     *)

Ok(str) == [ok |-> TRUE, val |-> str]
Err(msg) == [ok |-> FALSE, val |-> <<msg>>]

\* Translator::translate on the map m, as an Option.
translate(m, word) == IF word \in DOMAIN m THEN <<m[word]>> ELSE <<>>

\* The locals of Translator::format before the first character.
ScanStart == [in_match |-> FALSE, in_brace |-> FALSE, s |-> <<>>, cap |-> <<>>]

\* Variant: a second % keeps the scanner in the match state.
PercentArm_EscapeKeepsMatch(sc) ==
    IF sc.in_match /\ ~sc.in_brace
    THEN [err |-> <<>>, scan |-> [sc EXCEPT !.s = sc.s \o <<"%">>]]
    ELSE IF sc.in_brace \/ sc.in_match
    THEN [err |-> <<"Invalid format (format attempted within format)">>, scan |-> sc]
    ELSE [err |-> <<>>, scan |-> [sc EXCEPT !.in_match = TRUE, !.in_brace = FALSE]]

\* Variant: a % inside a brace span is captured as part of the word.
PercentArm_CapturedInBrace(sc) ==
    IF sc.in_match /\ ~sc.in_brace
    THEN [err |-> <<>>, scan |-> [sc EXCEPT !.s = sc.s \o <<"%">>, !.in_match = FALSE]]
    ELSE IF sc.in_brace
    THEN [err |-> <<>>, scan |-> [sc EXCEPT !.cap = sc.cap \o <<"%">>]]
    ELSE [err |-> <<>>, scan |-> [sc EXCEPT !.in_match = TRUE, !.in_brace = FALSE]]

\* The arm of '%': the error raised, if any, and the locals afterwards.
PercentArm(sc) ==
    IF sc.in_match /\ ~sc.in_brace
    THEN [err |-> <<>>, scan |-> [sc EXCEPT !.s = sc.s \o <<"%">>, !.in_match = FALSE]]
    ELSE IF sc.in_brace \/ sc.in_match
    THEN [err |-> <<"Invalid format (format attempted within format)">>, scan |-> sc]
    ELSE [err |-> <<>>, scan |-> [sc EXCEPT !.in_match = TRUE, !.in_brace = FALSE]]

\* Variant: an open brace outside the match state is dropped.
OpenBraceArm_DropsLiteral(sc) ==
    IF ~sc.in_match
    THEN [err |-> <<>>, scan |-> sc]
    ELSE IF sc.in_brace
    THEN [err |-> <<"Invalid format (open brace attempted within open brace)">>, scan |-> sc]
    ELSE [err |-> <<>>, scan |-> [sc EXCEPT !.in_brace = TRUE]]

\* The arm of '{'.
OpenBraceArm(sc) ==
    IF ~sc.in_match
    THEN [err |-> <<>>, scan |-> [sc EXCEPT !.s = sc.s \o <<"{">>]]
    ELSE IF sc.in_brace
    THEN [err |-> <<"Invalid format (open brace attempted within open brace)">>, scan |-> sc]
    ELSE [err |-> <<>>, scan |-> [sc EXCEPT !.in_brace = TRUE]]

\* Variant: a word that does not parse, or has no translation, is an error.
CloseBraceArm_UnknownWordFails(m, sc) ==
    IF ~sc.in_match
    THEN [err |-> <<>>, scan |-> [sc EXCEPT !.s = sc.s \o <<"}">>]]
    ELSE IF ~sc.in_brace
    THEN [err |-> <<"Invalid format (close brace attempted outside open brace)">>, scan |-> sc]
    ELSE LET word == WordsFromStr(sc.cap)
         IN  IF word = <<>> \/ translate(m, word[1]) = <<>>
             THEN [err |-> <<"invalid word">>, scan |-> sc]
             ELSE [err |-> <<>>,
                   scan |-> [in_match |-> FALSE, in_brace |-> FALSE,
                             s |-> sc.s \o translate(m, word[1])[1], cap |-> <<>>]]

\* Variant: the captured word is kept after the closing brace.
CloseBraceArm_KeepsCapture(m, sc) ==
    IF ~sc.in_match
    THEN [err |-> <<>>, scan |-> [sc EXCEPT !.s = sc.s \o <<"}">>]]
    ELSE IF ~sc.in_brace
    THEN [err |-> <<"Invalid format (close brace attempted outside open brace)">>, scan |-> sc]
    ELSE LET word == WordsFromStr(sc.cap)
             text == IF word = <<>> THEN <<>>
                     ELSE IF translate(m, word[1]) = <<>> THEN <<>>
                     ELSE translate(m, word[1])[1]
         IN  [err |-> <<>>,
              scan |-> [in_match |-> FALSE, in_brace |-> FALSE,
                        s |-> sc.s \o text, cap |-> sc.cap]]

\* The arm of '}'.
CloseBraceArm(m, sc) ==
    IF ~sc.in_match
    THEN [err |-> <<>>, scan |-> [sc EXCEPT !.s = sc.s \o <<"}">>]]
    ELSE IF ~sc.in_brace
    THEN [err |-> <<"Invalid format (close brace attempted outside open brace)">>, scan |-> sc]
    ELSE LET word == WordsFromStr(sc.cap)
             text == IF word = <<>> THEN <<>>
                     ELSE IF translate(m, word[1]) = <<>> THEN <<>>
                     ELSE translate(m, word[1])[1]
         IN  [err |-> <<>>,
              scan |-> [in_match |-> FALSE, in_brace |-> FALSE,
                        s |-> sc.s \o text, cap |-> <<>>]]

\* Variant: a character pushed to the output ends the match state.
OtherArm_LeavesMatch(sc, ch) ==
    IF sc.in_brace /\ sc.in_match
    THEN [err |-> <<>>, scan |-> [sc EXCEPT !.cap = sc.cap \o <<ch>>]]
    ELSE [err |-> <<>>, scan |-> [sc EXCEPT !.s = sc.s \o <<ch>>, !.in_match = FALSE]]

\* The arm of every other character.
OtherArm(sc, ch) ==
    IF sc.in_brace /\ sc.in_match
    THEN [err |-> <<>>, scan |-> [sc EXCEPT !.cap = sc.cap \o <<ch>>]]
    ELSE [err |-> <<>>, scan |-> [sc EXCEPT !.s = sc.s \o <<ch>>]]

\* One iteration of the loop of Translator::format over the character ch.
ScanChar(m, sc, ch) ==
    CASE ch = "%" -> PercentArm(sc)
      [] ch = "{" -> OpenBraceArm(sc)
      [] ch = "}" -> CloseBraceArm(m, sc)
      [] OTHER -> OtherArm(sc, ch)

\* Variant: only an unclosed brace is an error at the end of the input.
ScanEnd_BraceOnly(sc) ==
    IF sc.in_brace THEN Err("Invalid format (unclosed brace)") ELSE Ok(sc.s)

\* Translator::format after the loop.
ScanEnd(sc) ==
    IF sc.in_brace THEN Err("Invalid format (unclosed brace)")
    ELSE IF sc.in_match THEN Err("Invalid format (incomplete match)")
    ELSE Ok(sc.s)

\* Translator::format, from the character at position i on.
RECURSIVE ScanFrom(_, _, _, _)
ScanFrom(m, str, i, sc) ==
    IF i > Len(str) THEN ScanEnd(sc)
    ELSE LET r == ScanChar(m, sc, str[i])
         IN  IF r.err # <<>> THEN Err(r.err[1]) ELSE ScanFrom(m, str, i + 1, r.scan)

TranslatorFormat(m, str) == ScanFrom(m, str, 1, ScanStart)

----------------------------------------------------------------------------
(* The inputs of the model: filter lists, generators and timestamps.       *)

\* Every filter, with its parameters over the bounds.
AllFilters ==
    {TopRounds(n) : n \in 0..MaxCount} \cup {TopRounds(Len(all))}
    \cup {TopRoundsMaxRelative(n, b) : n \in 0..MaxCount, b \in TimeBoundary}
    \cup {RoundWithBound(b, n) : b \in TimeBoundary, n \in 0..MaxUpto}
    \cup {Round(b) : b \in TimeBoundary}
    \cup {DayNameWithinWeek, MonthNameWithinYear, HourShorthand, ApproximateTime, Relative}

\* The filters combined into lists of every order.
CoreFilters ==
    {Round("Month"), Round("Day"), RoundWithBound("Month", MaxUpto), TopRounds(MaxCount),
     MonthNameWithinYear, DayNameWithinWeek, Relative}

RoundYMD == <<Round("Year"), Round("Month"), Round("Day")>>

ExampleLists ==
    {RoundYMD,
     <<Relative, ApproximateTime, Round("Year"), Round("Month"), Round("Day")>>,
     <<Relative, Round("Month"), Round("Day")>>,
     <<Round("Month"), Round("Day"), Relative>>,
     <<Relative, RoundWithBound("Month", 2), Round("Day")>>,
     <<RoundWithBound("Month", 2), Round("Day")>>,
     <<Round("Year"), Relative>>,
     <<HourShorthand, ApproximateTime, TopRounds(1), Relative>>}

FilterLists ==
    UNION {[1..k -> CoreFilters] : k \in 0..MaxFilters}
    \cup {<<f>> : f \in AllFilters}
    \cup ExampleLists

Generators == {CoarseRoundFormat, FancyDurationFormat}

\* 2024-01-03 06:00:00, a Wednesday.
MainOriginal == DurationAdd(days(2), hours(6))

\* 2024-04-03 12:00:00, 2024-12-29 00:00:00 and 2024-01-07 19:15:00.5.
OtherOriginals ==
    {DurationAdd(days(93), hours(12)),
     days(363),
     [secs |-> 6 * 86400 + 19 * 3600 + 15 * 60, sub |-> 1]}

\* A Duration of y years, mo months, d days and s seconds plus sub ticks.
Span(y, mo, d, s, sub) == [secs |-> y * YEAR + mo * MONTH + d * 86400 + s, sub |-> sub]

\* Lengths of the difference of the two timestamps.
Magnitudes ==
    {Span(0, 0, 0, 0, 1), Span(0, 0, 0, 1, 0), Span(0, 0, 0, 59, 0), Span(0, 0, 0, 60, 0),
     Span(0, 0, 0, 3780, 0),
     Span(0, 0, 1, 0, 0), Span(0, 0, 2, 0, 0), Span(0, 0, 4, 0, 0),
     Span(0, 0, 6, 86399, TicksPerSecond - 1), Span(0, 0, 7, 0, 0), Span(0, 0, 7, 0, 1),
     Span(0, 0, 29, 86399, TicksPerSecond - 1),
     Span(0, 1, 0, 0, 0), Span(0, 2, 26, 0, 0), Span(0, 3, 5, 0, 0),
     Span(0, 0, 360, 0, 0),
     Span(0, 0, 364, 86399, TicksPerSecond - 1), Span(1, 0, 0, 0, 0), Span(1, 0, 0, 0, 1),
     Span(1, 0, 3, 3600, 0),
     Span(1, 1, 8, 3661, 0),
     Span(2, 2, 0, 0, 0),
     Span(45, 9, 17, 0, 0)}

Deltas == {seconds(0)} \cup Magnitudes \cup {DurationSub(seconds(0), m) : m \in Magnitudes}

Calls ==
    {[dt |-> MainOriginal, against |-> DurationAdd(MainOriginal, d)] : d \in Deltas}
    \cup {[dt |-> o, against |-> DurationAdd(o, d)] :
            o \in OtherOriginals,
            d \in {seconds(0), days(4), DurationSub(seconds(0), days(4)),
                    seconds(YEAR), DurationSub(seconds(0), seconds(YEAR))}}

\* The characters the templates are made of: the three the scanner tells
\* apart and two letters, of which "a" and "an" are words.
Alphabet == {"%", "{", "}", "a", "n"}

\* Templates of the tests of Translator::format and of the generators.
ExampleTemplates ==
    {<<"%", "{", "y", "e", "s", "t", "e", "r", "d", "a", "y", "}", " ", "%", "{", "a", "t", "}", " ", "%", "{", "n", "o", "o", "n", "}">>,
     <<"%", "{", "p", "o", "o", "p", "}">>,
     <<"%", "{", "a", "n", "}">>,
     <<"%", "{", "a", "}", "n">>,
     <<"%", "{", "n", "}", "a">>,
     <<"%", "{", "a", "n", "}", "%", "%">>,
     <<"a", "%", "{", "a", "n">>,
     <<"%", "x", "{", "a", "g", "o", "}">>,
     <<"4", "5", " ", "%", "{", "y", "e", "a", "r", "s", "}", ",", " ", "9", " ", "%", "{", "m", "o", "n", "t", "h", "s", "}", " ", "%", "{", "a", "n", "d", "}", " ", "1", "7", " ", "%", "{", "d", "a", "y", "s", "}", " ", "%", "{", "a", "g", "o", "}">>,
     <<"%", "{", "i", "n", "}", " ", "2", "m", "2", "6", "d">>,
     <<"1", " ", "%", "{", "d", "a", "y", "}", " ", "%", "{", "f", "r", "o", "m", " ", "n", "o", "w", "}">>}

Templates == UNION {[1..k -> Alphabet] : k \in 0..MaxTemplate} \cup ExampleTemplates

\* A map with one entry, whose text is not the word's own spelling.
OneWordMap == "An" :> <<"u", "n", "e">>

Maps == {DEFAULT_TRANSLATION, OneWordMap}

----------------------------------------------------------------------------
(* The state machine.                                                      *)

\* A Translator with the default map on which format has not been called.
NoTranslation ==
    /\ map = DEFAULT_TRANSLATION
    /\ template = <<>>
    /\ pos = 0
    /\ scan = ScanStart
    /\ result = <<>>

\* Approximator::new; no difference call has been made yet.
Init ==
    /\ filter \in FilterLists
    /\ obj \in Generators
    /\ pc = "idle"
    /\ dt = seconds(0)
    /\ against = seconds(0)
    /\ duration = seconds(0)
    /\ state = <<>>
    /\ item = 1
    /\ fmt = [states |-> <<>>, obj |-> obj]
    /\ out = <<>>
    /\ parses = 0
    /\ NoTranslation
    /\ calls = <<>>
    /\ answer = <<>>

\* difference, up to the filter loop.
DifferenceEntry(orig, cmp) ==
    [state |-> <<WithDate(date_naive(orig)), WithTime(time(orig))>>,
     duration |-> absolute_duration(orig, cmp)]

\* Variant: the states of a filter are put in front of the collection.
DifferenceStep_Prepend(f, orig, cmp, dur, st) ==
    LET r == FilterArm(f, orig, cmp, dur)
    IN  [state |-> r.states \o st, duration |-> r.duration]

\* One iteration of the filter loop: the new collection and accumulator.
DifferenceStep(f, orig, cmp, dur, st) ==
    LET r == FilterArm(f, orig, cmp, dur)
    IN  [state |-> st \o r.states, duration |-> r.duration]

\* difference, after the filter loop.
DifferenceReturn(st, g) == [states |-> st, obj |-> g]

Call ==
    /\ pc = "idle"
    /\ \E c \in Calls :
        /\ dt' = c.dt
        /\ against' = c.against
        /\ state' = DifferenceEntry(c.dt, c.against).state
        /\ duration' = DifferenceEntry(c.dt, c.against).duration
    /\ item' = 1
    /\ pc' = "loop"
    /\ UNCHANGED <<tvars, calls, answer, filter, obj, fmt, out, parses>>

Step ==
    /\ pc = "loop"
    /\ item <= Len(filter)
    /\ state' = DifferenceStep(filter[item], dt, against, duration, state).state
    /\ duration' = DifferenceStep(filter[item], dt, against, duration, state).duration
    /\ item' = item + 1
    /\ UNCHANGED <<tvars, calls, answer, filter, obj, pc, dt, against, fmt, out, parses>>

Return ==
    /\ pc = "loop"
    /\ item > Len(filter)
    /\ fmt' = DifferenceReturn(state, obj)
    /\ pc' = "returned"
    /\ UNCHANGED <<tvars, calls, answer, filter, obj, dt, against, duration, state, item, out, parses>>

Parse ==
    /\ pc = "returned"
    /\ parses < MaxParses
    /\ fmt' = StateFormatterParse(fmt)
    /\ parses' = parses + 1
    /\ UNCHANGED <<tvars, calls, answer, filter, obj, pc, dt, against, duration, state, item, out>>

Format ==
    /\ pc = "returned"
    /\ fmt' = StateFormatterFormat(fmt).sf
    /\ out' = <<StateFormatterFormat(fmt).str>>
    /\ parses' = IF is_parsed(fmt.obj) THEN parses ELSE parses + 1
    /\ UNCHANGED <<tvars, calls, answer, filter, obj, pc, dt, against, duration, state, item>>

FormatParsed ==
    /\ pc = "returned"
    /\ out' = <<StateFormatterFormatParsed(fmt)>>
    /\ UNCHANGED <<tvars, calls, answer, filter, obj, pc, dt, against, duration, state, item, fmt, parses>>

\* The rest of time_diff! on the StateFormatter difference returned:
\* to_string, which is format_parsed, and Translator::format on the string.
TimeDiff ==
    /\ pc = "returned"
    /\ parses = 0
    /\ out = <<>>
    /\ out' = <<StateFormatterFormatParsed(fmt)>>
    /\ template' = StateFormatterFormatParsed(fmt)
    /\ result' = <<TranslatorFormat(map, StateFormatterFormatParsed(fmt))>>
    /\ pc' = "translated"
    /\ UNCHANGED <<filter, obj, dt, against, duration, state, item, fmt, parses,
                   map, pos, scan, calls, answer>>

Next == Call \/ Step \/ Return \/ Parse \/ Format \/ FormatParsed \/ TimeDiff

Spec == Init /\ [][Next]_vars

----------------------------------------------------------------------------
(* The state machine of a Translator.                                      *)

\* No difference call is made on the Approximator.
NoDifference ==
    /\ filter = <<>>
    /\ obj = CoarseRoundFormat
    /\ pc = "idle"
    /\ dt = seconds(0)
    /\ against = seconds(0)
    /\ duration = seconds(0)
    /\ state = <<>>
    /\ item = 1
    /\ fmt = [states |-> <<>>, obj |-> obj]
    /\ out = <<>>
    /\ parses = 0
    /\ calls = <<>>
    /\ answer = <<>>

\* Translator::new.
TranslatorInit ==
    /\ map \in Maps
    /\ template = <<>>
    /\ pos = 0
    /\ scan = ScanStart
    /\ result = <<>>
    /\ NoDifference

\* format is called: the locals are set up.
FormatCall ==
    /\ pos = 0
    /\ template' \in Templates
    /\ pos' = 1
    /\ scan' = ScanStart
    /\ result' = <<>>
    /\ UNCHANGED <<filter, obj, avars, calls, answer, map>>

\* One iteration of the loop: the next character is read.
ScanNext ==
    /\ pos >= 1
    /\ result = <<>>
    /\ pos <= Len(template)
    /\ LET r == ScanChar(map, scan, template[pos])
       IN  IF r.err # <<>>
           THEN result' = <<Err(r.err[1])>> /\ UNCHANGED <<pos, scan>>
           ELSE scan' = r.scan /\ pos' = pos + 1 /\ UNCHANGED result
    /\ UNCHANGED <<filter, obj, avars, calls, answer, map, template>>

\* The input is exhausted: format returns.
ScanFinish ==
    /\ pos >= 1
    /\ result = <<>>
    /\ pos > Len(template)
    /\ result' = <<ScanEnd(scan)>>
    /\ UNCHANGED <<filter, obj, avars, calls, answer, map, template, pos, scan>>

TranslatorNext == FormatCall \/ ScanNext \/ ScanFinish

TranslatorSpec == TranslatorInit /\ [][TranslatorNext]_vars


----------------------------------------------------------------------------
(* The state machine of two difference calls on one Approximator.          *)

\* The filter loop of difference run over the first n filters of fl: the
\* collection and the accumulator afterwards.
RECURSIVE DifferenceLoop(_, _, _, _)
DifferenceLoop(fl, n, orig, cmp) ==
    IF n = 0 THEN DifferenceEntry(orig, cmp)
    ELSE CHOOSE r \in {DifferenceStep(fl[n], orig, cmp, p.duration, p.state) :
                          p \in {DifferenceLoop(fl, n - 1, orig, cmp)}} : TRUE

\* Approximator::difference as one call on the filter list fl and the
\* renderer g.
difference(fl, g, orig, cmp) ==
    DifferenceReturn(DifferenceLoop(fl, Len(fl), orig, cmp).state, g)

\* The two invocations.
CallIds == {1, 2}

\* The filter lists and the arguments of the two invocations.
ConcurrentLists == ExampleLists

ConcurrentCalls ==
    {[dt |-> MainOriginal, against |-> DurationAdd(MainOriginal, d)] :
        d \in {seconds(0), Span(45, 9, 17, 0, 0), Span(1, 0, 3, 3600, 0),
                DurationSub(seconds(0), Span(0, 2, 26, 0, 0))}}
    \cup {[dt |-> DurationAdd(days(93), hours(12)),
           against |-> DurationAdd(days(89), hours(12))]}

\* The locals of an invocation that has not started; fmt and out are
\* Options.
IdleCall ==
    [pc |-> "idle", dt |-> seconds(0), against |-> seconds(0), duration |-> seconds(0),
     state |-> <<>>, item |-> 1, fmt |-> <<>>, out |-> <<>>]

\* Variant: the duration accumulator is one cell that every invocation
\* reads, the one of invocation 1.
Locals_SharedAccumulator(cs, c) == [cs[c] EXCEPT !.duration = cs[1].duration]

\* The locals of invocation c: state and duration are let bindings of the
\* call, the renderer of its StateFormatter is a clone.
Locals(cs, c) == cs[c]

ConcurrentInit ==
    /\ filter \in ConcurrentLists
    /\ obj \in Generators
    /\ calls = [c \in CallIds |-> IdleCall]
    /\ answer = <<>>
    /\ pc = "idle"
    /\ dt = seconds(0)
    /\ against = seconds(0)
    /\ duration = seconds(0)
    /\ state = <<>>
    /\ item = 1
    /\ fmt = [states |-> <<>>, obj |-> obj]
    /\ out = <<>>
    /\ parses = 0
    /\ NoTranslation

\* An invocation enters difference.
ConcurrentCall ==
    \E c \in CallIds, a \in ConcurrentCalls :
        /\ Locals(calls, c).pc = "idle"
        /\ calls' = [calls EXCEPT ![c] =
                        [Locals(calls, c) EXCEPT
                            !.pc = "loop", !.dt = a.dt, !.against = a.against,
                            !.state = DifferenceEntry(a.dt, a.against).state,
                            !.duration = DifferenceEntry(a.dt, a.against).duration,
                            !.item = 1]]
        /\ UNCHANGED <<filter, obj, avars, tvars, answer>>

\* An invocation runs one iteration of its filter loop.
ConcurrentStep ==
    \E c \in CallIds :
        LET l == Locals(calls, c)
        IN  /\ l.pc = "loop"
            /\ l.item <= Len(filter)
            /\ LET r == DifferenceStep(filter[l.item], l.dt, l.against, l.duration, l.state)
               IN  calls' = [calls EXCEPT ![c] =
                                [l EXCEPT !.state = r.state, !.duration = r.duration,
                                          !.item = l.item + 1]]
            /\ UNCHANGED <<filter, obj, avars, tvars, answer>>

\* An invocation returns its StateFormatter.
ConcurrentReturn ==
    \E c \in CallIds :
        LET l == Locals(calls, c)
        IN  /\ l.pc = "loop"
            /\ l.item > Len(filter)
            /\ calls' = [calls EXCEPT ![c] =
                            [l EXCEPT !.pc = "returned",
                                      !.fmt = <<DifferenceReturn(l.state, obj)>>]]
            /\ UNCHANGED <<filter, obj, avars, tvars, answer>>

\* format is called on the StateFormatter of an invocation.
ConcurrentFormat ==
    \E c \in CallIds :
        LET l == Locals(calls, c)
        IN  /\ l.pc = "returned"
            /\ calls' = [calls EXCEPT ![c] =
                            [l EXCEPT !.fmt = <<StateFormatterFormat(l.fmt[1]).sf>>,
                                      !.out = <<StateFormatterFormat(l.fmt[1]).str>>]]
            /\ UNCHANGED <<filter, obj, avars, tvars, answer>>

ConcurrentNext == ConcurrentCall \/ ConcurrentStep \/ ConcurrentReturn \/ ConcurrentFormat

ConcurrentSpec == ConcurrentInit /\ [][ConcurrentNext]_vars

----------------------------------------------------------------------------
(* The state machine of the TimeBoundary queries.                          *)

\* Lengths around the thresholds of within.
BoundaryMagnitudes ==
    {Span(0, 0, 0, 0, 0), Span(0, 0, 0, 0, 1), Span(0, 0, 0, 59, TicksPerSecond - 1),
     Span(0, 0, 0, 60, 0), Span(0, 0, 0, 119, 0), Span(0, 0, 0, 120, 0),
     Span(0, 0, 0, 3599, 0), Span(0, 0, 0, 3600, 0), Span(0, 0, 0, 7199, 0),
     Span(0, 0, 0, 7200, 0), Span(0, 0, 0, 86399, 0),
     Span(0, 0, 1, 0, 0), Span(0, 0, 1, 0, 1), Span(0, 0, 1, 43200, 0),
     Span(0, 0, 1, 86399, TicksPerSecond - 1), Span(0, 0, 2, 0, 0),
     Span(0, 0, 7, 0, 0), Span(0, 0, 13, 0, 0), Span(0, 0, 14, 0, 0),
     Span(0, 0, 29, 86399, TicksPerSecond - 1), Span(0, 1, 0, 0, 0),
     Span(0, 1, 0, 86399, 0), Span(0, 1, 1, 0, 0),
     Span(0, 0, 364, 86399, 0), Span(1, 0, 0, 0, 0), Span(1, 0, 1, 0, 0),
     Span(45, 9, 17, 0, 0)}

\* The timestamps of a query, either one the earlier.
BoundaryCalls ==
    {[dt |-> MainOriginal, dt2 |-> DurationAdd(MainOriginal, m)] : m \in BoundaryMagnitudes}
    \cup {[dt |-> DurationAdd(MainOriginal, m), dt2 |-> MainOriginal] : m \in BoundaryMagnitudes}

\* No query has been made.
BoundaryInit ==
    /\ NoDifference
    /\ NoTranslation

\* within is called on a unit.
Within ==
    /\ \E b \in TimeBoundary, c \in BoundaryCalls :
          answer' = <<[op |-> "within", unit |-> b, dt |-> c.dt, dt2 |-> c.dt2,
                       val |-> within(b, c.dt, c.dt2)]>>
    /\ UNCHANGED <<filter, obj, avars, tvars, calls>>

\* highest is called.
Highest ==
    /\ \E c \in BoundaryCalls :
          answer' = <<[op |-> "highest", dt |-> c.dt, dt2 |-> c.dt2,
                       val |-> highest(c.dt, c.dt2)]>>
    /\ UNCHANGED <<filter, obj, avars, tvars, calls>>

BoundaryNext == Within \/ Highest

BoundarySpec == BoundaryInit /\ [][BoundaryNext]_vars

----------------------------------------------------------------------------
(* The state machine of the Words conversions.                             *)

\* The variants of Words without a number.
PlainWords ==
    {"January", "February", "March", "April", "May", "June", "July",
     "August", "September", "October", "November", "December", "Noon",
     "Midnight", "PM", "AM", "A", "In", "An", "And", "FromNow", "At",
     "Ago", "Last", "Year", "Week", "Month", "Day", "Hour", "Minute",
     "Second", "YearPlural", "WeekPlural", "MonthPlural", "DayPlural",
     "HourPlural", "MinutePlural", "SecondPlural", "Yesterday", "Today",
     "Tomorrow", "Sunday", "Monday", "Tuesday", "Wednesday", "Thursday",
     "Friday", "Saturday"}

\* The words Words::from_str knows, and the words of the model.
Vocabulary == PlainWords \cup {SuffixWords[n] : n \in 1..10}
Words == PlainWords \cup {SuffixWords[n] : n \in 1..Len(SuffixWords)}

\* Strings near the spellings: with a space in front or behind, with an s
\* behind, without the first character, and some in other cases or forms.
OtherStrings ==
    UNION {{<<" ">> \o WordsDisplay(w), WordsDisplay(w) \o <<" ">>,
            WordsDisplay(w) \o <<"s">>, Tail(WordsDisplay(w))} : w \in Words}
    \cup {<<>>,
          <<"A", "g", "o">>,
          <<"A", "G", "O">>,
          <<"J", "a", "n", "u", "a", "r", "y">>,
          <<"P", "M">>,
          <<"f", "r", "o", "m", "_", "n", "o", "w">>,
          <<"F", "r", "o", "m", " ", "N", "o", "w">>,
          <<"f", "r", "o", "m", "n", "o", "w">>,
          <<"s", "u", "f", "f", "i", "x", "_">>,
          <<"s", "u", "f", "f", "i", "x", "_", "0", "0">>,
          <<"s", "u", "f", "f", "i", "x", "_", "-", "1">>,
          <<"s", "u", "f", "f", "i", "x", "_", "a">>,
          <<"p", "o", "o", "p">>,
          <<"y", "e", "a", "r", "a">>}

\* No conversion has been made.
WordsInit ==
    /\ NoDifference
    /\ NoTranslation

\* to_string is called on a word.
Display ==
    /\ \E w \in Words :
          answer' = <<[op |-> "to_string", word |-> w, val |-> WordsDisplay(w)]>>
    /\ UNCHANGED <<filter, obj, avars, tvars, calls>>

\* from_str is called on the string to_string returned; of is the word it
\* was the spelling of.
FromStrOfSpelling ==
    /\ answer # <<>>
    /\ answer[1].op = "to_string"
    /\ answer' = <<[op |-> "from_str", str |-> answer[1].val, of |-> <<answer[1].word>>,
                    val |-> WordsFromStr(answer[1].val)]>>
    /\ UNCHANGED <<filter, obj, avars, tvars, calls>>

\* from_str is called on another string.
FromStr ==
    /\ \E str \in OtherStrings :
          answer' = <<[op |-> "from_str", str |-> str, of |-> <<>>,
                       val |-> WordsFromStr(str)]>>
    /\ UNCHANGED <<filter, obj, avars, tvars, calls>>

WordsNext == Display \/ FromStrOfSpelling \/ FromStr

WordsSpec == WordsInit /\ [][WordsNext]_vars

----------------------------------------------------------------------------
(* Vocabulary of the properties.                                           *)

\* Length of a unit in seconds: year = 365 days, month = 30 days.
UnitSeconds(b) ==
    CASE b = "Year" -> 365 * 86400
      [] b = "Month" -> 30 * 86400
      [] b = "Week" -> 7 * 86400
      [] b = "Day" -> 86400
      [] b = "Hour" -> 3600
      [] b = "Minute" -> 60
      [] b = "Second" -> 1

\* Sum of count x unit length over the Values of a sequence of states.
RECURSIVE ValueSeconds(_)
ValueSeconds(sts) ==
    IF sts = <<>> THEN 0
    ELSE (IF Head(sts).type = "Value" THEN Head(sts).count * UnitSeconds(Head(sts).unit) ELSE 0)
         + ValueSeconds(Tail(sts))

IsPrefix(a, b) == Len(a) <= Len(b) /\ SubSeq(b, 1, Len(a)) = a

\* The call is about to run the loop body for a filter of this kind.
AtFilter(kind) == pc = "loop" /\ item <= Len(filter) /\ filter[item].kind = kind

\* The states the step being taken appends to the collection.
Pushed == SubSeq(state', Len(state) + 1, Len(state'))

\* The whole difference of the call, |dt - against|.
Distance ==
    IF DurationGt(dt, against) THEN DurationSub(dt, against) ELSE DurationSub(against, dt)

\* pushed and the accumulator dur2 are what a coarsest-first scan of the
\* units of the set units, capped at n Values, makes of the accumulator dur.
IsTopScan(units, n, dur, pushed, dur2) ==
    LET Before(u) == Cardinality({k \in 1..Len(pushed) :
                                   TimeBoundaryOrd(pushed[k].unit) > TimeBoundaryOrd(u)})
        Rem(j) == dur.secs - ValueSeconds(SubSeq(pushed, 1, j))
    IN  /\ Len(pushed) <= n
        /\ \A k \in 1..Len(pushed) :
              /\ pushed[k].type = "Value"
              /\ pushed[k].unit \in units
              /\ pushed[k].count >= 1
              /\ pushed[k].count = Rem(k - 1) \div UnitSeconds(pushed[k].unit)
        /\ \A k \in 1..(Len(pushed) - 1) :
              TimeBoundaryOrd(pushed[k].unit) > TimeBoundaryOrd(pushed[k + 1].unit)
        /\ \A u \in units :
              (/\ \A k \in 1..Len(pushed) : pushed[k].unit # u
               /\ Before(u) < n) => Rem(Before(u)) < UnitSeconds(u)
        /\ dur2.secs = Rem(Len(pushed))
        /\ dur2.sub = dur.sub

----------------------------------------------------------------------------
(* Properties.                                                             *)

\* C1: for a whole-second duration d and the filters Round(Year),
\* Round(Month), Round(Day), the emitted counts times their unit lengths
\* plus the accumulator left after the last filter add up to d.
C1_Conservation ==
    (pc = "returned" /\ filter = RoundYMD /\ Distance.sub = 0)
        => /\ ValueSeconds(state) + duration.secs = Distance.secs
           /\ duration.sub = 0

C1_Witness ==
    /\ pc = "returned"
    /\ filter = RoundYMD
    /\ Len(state) = 5
    /\ state[3] = Value("Year", 1) /\ state[4] = Value("Month", 1) /\ state[5] = Value("Day", 8)
    /\ duration = seconds(3661)

\* C2: a TopRounds(n) step pushes at most n Values, coarsest unit first,
\* each the whole quotient of what is left; a unit with quotient zero is
\* passed over without counting, and nothing is consumed beyond the Values
\* pushed.
C2_TopRounds ==
    [][AtFilter("TopRounds")
        => IsTopScan(TimeBoundary, filter[item].count, duration, Pushed, duration')]_vars

C2_Witness ==
    /\ pc = "returned"
    /\ filter = <<TopRounds(2)>>
    /\ Len(state) = 4
    /\ state[3] = Value("Year", 1) /\ state[4] = Value("Day", 3)
    /\ duration = seconds(3600)

\* C3: a RoundWithBound(b, n) step pushes a Value only when the quotient q
\* of the accumulator by the length of b satisfies 1 <= q <= n, and the
\* Value it pushes is Value(b, q).
C3_BoundRespected ==
    [][AtFilter("RoundWithBound")
        => LET q == duration.secs \div UnitSeconds(filter[item].relative)
           IN  Pushed # <<>> => /\ 1 <= q /\ q <= filter[item].upto
                                /\ Pushed = <<Value(filter[item].relative, q)>>]_vars

C3_Witness ==
    /\ pc = "returned"
    /\ filter = <<RoundWithBound("Month", 2)>>
    /\ Len(state) = 3
    /\ state[3] = Value("Month", 2)
    /\ duration = days(26)

\* C4: a Round or RoundWithBound step that pushes nothing leaves the
\* accumulator as it was.
C4_DeclineKeepsDuration ==
    [][(AtFilter("Round") \/ AtFilter("RoundWithBound"))
        => (Pushed = <<>> => duration' = duration)]_vars

C4_Witness ==
    /\ pc = "returned"
    /\ filter = <<RoundWithBound("Month", 2), Round("Day")>>
    /\ Len(state) = 3
    /\ state[3] = Value("Day", 95)

C6_OrderMatters ==
    (pc = "returned" /\ Distance.secs >= UnitSeconds("Year"))
        => /\ filter = <<Round("Day"), MonthNameWithinYear>>
                => \E k \in 1..Len(state) : state[k].type = "MonthName"
           /\ filter = <<MonthNameWithinYear, Round("Day")>>
                => \A k \in 1..Len(state) : state[k].type # "MonthName"

C6_Witness ==
    /\ pc = "returned"
    /\ filter = <<Round("Day"), MonthNameWithinYear>>
    /\ Distance = [secs |-> 365 * 86400, sub |-> 0]
    /\ Len(state) = 4
    /\ state[3] = Value("Day", 365)
    /\ state[4] = MonthName("January")

C8_CapRespected ==
    [][AtFilter("TopRoundsMaxRelative")
        => LET cap == filter[item].relative
               finer == {u \in TimeBoundary : TimeBoundaryOrd(u) <= TimeBoundaryOrd(cap)}
           IN  IsTopScan(finer, filter[item].count, duration, Pushed, duration')]_vars

C8_Witness ==
    /\ pc = "returned"
    /\ filter = <<TopRoundsMaxRelative(3, "Second")>>
    /\ Len(state) = 3
    /\ state[3] = Value("Second", 3780)

\* Month and weekday of the original timestamps of the model.
OriginalMonth == IF dt.secs \div 86400 = 93 THEN "April"
                 ELSE IF dt.secs \div 86400 = 363 THEN "December" ELSE "January"
OriginalWeekday == IF dt.secs \div 86400 \in {2, 93} THEN "Wednesday" ELSE "Sunday"

RECURSIVE CountChar(_, _)
CountChar(str, ch) ==
    IF str = <<>> THEN 0
    ELSE (IF Head(str) = ch THEN 1 ELSE 0) + CountChar(Tail(str), ch)

\* part occurs in str.
Contains(str, part) ==
    \E k \in 0..(Len(str) - Len(part)) : SubSeq(str, k + 1, k + Len(part)) = part

IsValue(st) == st.type = "Value"
Values(sts) == SelectSeq(sts, IsValue)

\* The text of a Value in the coarse rendering, without what separates it
\* from its neighbours.
CoarseValueText(v) ==
    I64Display(v.count) \o <<" ", "%", "{">>
    \o WordsDisplay(IF v.count > 1 THEN plural(v.unit) ELSE v.unit) \o <<"}">>

\* A string has been rendered by the coarse generator from one ingestion
\* of the collection.
CoarseRendered ==
    /\ pc = "returned"
    /\ out # <<>>
    /\ parses <= 1
    /\ fmt.obj.kind = "CoarseRoundFormat"

\* C10: in the coarse rendering of a collection with two or more Values,
\* every Value but the last is followed by a comma and the last is prefixed
\* with %{and}.
C10_CommaList ==
    (CoarseRendered /\ Len(Values(fmt.states)) >= 2)
        => LET vs == Values(fmt.states)
           IN  /\ \A k \in 1..(Len(vs) - 1) :
                     Contains(out[1], CoarseValueText(vs[k]) \o <<",">>)
               /\ CountChar(out[1], ",") = Len(vs) - 1
               /\ Contains(out[1], <<"%", "{", "a", "n", "d", "}", " ">>
                                     \o CoarseValueText(vs[Len(vs)]))

\* str ends with part.
EndsWith(str, part) ==
    Len(part) <= Len(str) /\ SubSeq(str, Len(str) - Len(part) + 1, Len(str)) = part

IsInPast(st) == st.type = "InPast"
InPasts(sts) == SelectSeq(sts, IsInPast)

AgoSuffix == <<" ", "%", "{", "a", "g", "o", "}">>
FromNowSuffix == <<" ", "%", "{", "f", "r", "o", "m", " ", "n", "o", "w", "}">>

\* The unit word of a Value as the claim spells it: the singular word, with
\* an s when the count is greater than 1.
UnitWordText(v) ==
    I64Display(v.count) \o <<" ", "%", "{">> \o WordsDisplay(v.unit)
    \o (IF v.count > 1 THEN <<"s">> ELSE <<>>) \o <<"}">>

\* C11: the coarse rendering ends with %{ago} when the collection holds
\* InPast(true), with %{from now} when it holds InPast(false), and with
\* neither when it holds no InPast; the unit word of every Value is plural
\* exactly when its count is greater than 1.
C11_CoarseSuffixAndPlural ==
    CoarseRendered
        => LET ips == InPasts(fmt.states)
               vs == Values(fmt.states)
           IN  /\ (\E k \in 1..Len(ips) : ips[k].past) => EndsWith(out[1], AgoSuffix)
               /\ (\E k \in 1..Len(ips) : ~ips[k].past) => EndsWith(out[1], FromNowSuffix)
               /\ ips = <<>> => /\ ~EndsWith(out[1], SubSeq(AgoSuffix, 2, Len(AgoSuffix)))
                                /\ ~EndsWith(out[1], SubSeq(FromNowSuffix, 2, Len(FromNowSuffix)))
               /\ \A k \in 1..Len(vs) : Contains(out[1], UnitWordText(vs[k]))

\* A past rendering with singular and plural Values.
C11_Witness ==
    /\ CoarseRendered
    /\ Len(fmt.states) = 6
    /\ fmt.states[3] = InPast(TRUE)
    /\ fmt.states[4] = Value("Year", 1)
    /\ fmt.states[5] = Value("Day", 3)
    /\ fmt.states[6] = Value("Hour", 1)
    /\ EndsWith(out[1], <<"3", " ", "%", "{", "d", "a", "y", "s", "}", " ", "%", "{", "a", "n", "d", "}", " ",
                          "1", " ", "%", "{", "h", "o", "u", "r", "}">> \o AgoSuffix)

\* A string has been rendered by the compact generator from one ingestion
\* of the collection.
FancyRendered ==
    /\ pc = "returned"
    /\ out # <<>>
    /\ parses <= 1
    /\ fmt.obj.kind = "FancyDurationFormat"

\* The counts and unit letters of the Values vs, one after the other; the
\* unit letter is the first letter of the unit's word.
RECURSIVE CompactBody(_)
CompactBody(vs) ==
    IF vs = <<>> THEN <<>>
    ELSE I64Display(Head(vs).count) \o <<Head(WordsDisplay(Head(vs).unit))>>
         \o CompactBody(Tail(vs))

\* C12: the compact rendering is the counts and unit letters of the Values
\* in collection order without separators, followed by " %{ago}" when
\* InPast(true) is present, preceded by "%{in} " when InPast(false) is
\* present, and bare when no InPast is present; no other state shows.
C12_CompactRendering ==
    FancyRendered
        => LET ips == InPasts(fmt.states)
               body == CompactBody(Values(fmt.states))
           IN  /\ (\E k \in 1..Len(ips) : ips[k].past) => out[1] = body \o AgoSuffix
               /\ (\E k \in 1..Len(ips) : ~ips[k].past)
                     => out[1] = <<"%", "{", "i", "n", "}", " ">> \o body
               /\ ips = <<>> => out[1] = body

\* Example 4: "%{in} 2m26d".
C12_Witness ==
    /\ FancyRendered
    /\ filter = <<Relative, RoundWithBound("Month", 2), Round("Day")>>
    /\ out[1] = <<"%", "{", "i", "n", "}", " ", "2", "m", "2", "6", "d">>

C14_FormatIngestsOnce ==
    [][(Format /\ parses' <= 1)
        => /\ is_parsed(fmt'.obj)
           /\ fmt'.obj.formats = SelectSeq(fmt.states, IsValueOrInPast)
           /\ fmt'.states = fmt.states
           /\ is_parsed(fmt.obj)
                => /\ fmt'.obj.formats = fmt.obj.formats
                   /\ out # <<>> => out' = out]_vars

\* The renderer has ingested the five states of Example 1 once and a
\* string has been returned.
C14_Witness ==
    /\ pc = "returned"
    /\ parses = 1
    /\ is_parsed(fmt.obj)
    /\ Len(fmt.states) = 7
    /\ Len(fmt.obj.formats) = 4
    /\ out # <<>>

\* The scanner reads the character ch in this step.
Reads(ch) == ScanNext /\ template[pos] = ch

\* C15: a closing brace that ends a placeholder never fails: the scanner
\* leaves the match state with an empty capture and goes on to the next
\* character, and a word that is not in the vocabulary (the empty word
\* included) or has no entry in the map adds nothing to the output.
C15_UnknownWordIsEmpty ==
    [][(Reads("}") /\ scan.in_match /\ scan.in_brace)
        => /\ result' = <<>>
           /\ pos' = pos + 1
           /\ ~scan'.in_match /\ ~scan'.in_brace /\ scan'.cap = <<>>
           /\ (\/ WordsFromStr(scan.cap) = <<>>
               \/ WordsFromStr(scan.cap)[1] \notin DOMAIN map \/ scan.cap = <<>>
               \/ scan.cap = <<"n">>
               \/ scan.cap = <<"p", "o", "o", "p">>)
                => scan'.s = scan.s]_vars

\* "%{a}n" under a map that has no entry for the word a gives "n".
C15_Witness ==
    /\ map = OneWordMap
    /\ template = <<"%", "{", "a", "}", "n">>
    /\ result = <<Ok(<<"n">>)>>

\* C16: when the input is exhausted, format returns an error if the
\* scanner is in a brace span or in the match state, and Ok, with the
\* output built, only when it is in neither.
C16_EndOfInput ==
    /\ (result # <<>> /\ pos > Len(template))
         => /\ result[1].ok <=> (~scan.in_match /\ ~scan.in_brace)
            /\ result[1].ok => result[1] = Ok(scan.s)
    /\ (result # <<>> /\ result[1].ok)
         => (pos > Len(template) /\ ~scan.in_match /\ ~scan.in_brace)

\* "a%{an" ends inside a brace span.
C16_Witness ==
    /\ template = <<"a", "%", "{", "a", "n">>
    /\ pos = 6
    /\ result = <<Err("Invalid format (unclosed brace)")>>

\* C17: a step of the scan fails, with an error and no output, exactly
\* when it reads % inside a brace span, { inside a brace span, or } in the
\* match state outside a brace span.
C17_MidScanErrors ==
    [][ScanNext
        => /\ result' # <<>>
                <=> \/ template[pos] = "%" /\ scan.in_brace
                    \/ template[pos] = "{" /\ scan.in_brace
                    \/ template[pos] = "}" /\ scan.in_match /\ ~scan.in_brace
           /\ result' # <<>> => (~result'[1].ok /\ Len(result'[1].val) = 1)]_vars

\* "%{%" fails at its third character.
C17_Witness ==
    /\ Len(template) >= 3
    /\ SubSeq(template, 1, 3) = <<"%", "{", "%">>
    /\ pos = 3
    /\ result = <<Err("Invalid format (format attempted within format)")>>

\* C18: a % read in the match state outside a brace span, as the second
\* of %%, adds one % to the output and leaves the match state, the first
\* having added nothing; a { or } read outside the match state is added
\* to the output and changes nothing else.
C18_EscapeAndLiteralBraces ==
    [][ScanNext
        => /\ (template[pos] = "%" /\ scan.in_match /\ ~scan.in_brace)
                => /\ result' = <<>>
                   /\ scan' = [scan EXCEPT !.s = scan.s \o <<"%">>, !.in_match = FALSE]
           /\ (template[pos] = "%" /\ ~scan.in_match /\ ~scan.in_brace)
                => /\ result' = <<>>
                   /\ scan' = [scan EXCEPT !.in_match = TRUE]
           /\ (template[pos] \in {"{", "}"} /\ ~scan.in_match)
                => /\ result' = <<>>
                   /\ scan' = [scan EXCEPT !.s = scan.s \o <<template[pos]>>]]_vars

\* "%%{}" gives "%{}".
C18_Witness ==
    /\ template = <<"%", "%", "{", "}">>
    /\ result = <<Ok(<<"%", "{", "}">>)>>

\* str holds a placeholder: %{ with a } somewhere behind it.
HasPlaceholder(str) ==
    \E i \in 1..Len(str), j \in 1..Len(str) :
        i + 1 < j /\ str[i] = "%" /\ str[i + 1] = "{" /\ str[j] = "}"

\* format has returned the input itself, and returns it again when
\* applied to what it returned.
ReturnedVerbatim ==
    /\ result[1] = Ok(template)
    /\ TranslatorFormat(map, result[1].val) = result[1]

\* C19 as stated: for every input without a placeholder, format returns
\* the input verbatim, and again so on its own result.
C19_NoPlaceholderVerbatim ==
    (result # <<>> /\ ~HasPlaceholder(template)) => ReturnedVerbatim

\* C19: for every input without the character %, format returns the
\* input verbatim, and again so on its own result.
C19_NoPercentVerbatim ==
    (result # <<>> /\ CountChar(template, "%") = 0) => ReturnedVerbatim

\* "{a}n" is returned as it is.
C19_Witness ==
    /\ template = <<"{", "a", "}", "n">>
    /\ result = <<Ok(<<"{", "a", "}", "n">>)>>

\* Every invocation of cs is where it would be had it run alone: in the
\* loop, its collection and accumulator are those of the filters run so
\* far; returned, its collection, its renderer and the string rendered are
\* those of the whole call.
CallsAsAlone(cs) ==
    \A c \in CallIds :
        LET l == cs[c]
            alone == difference(filter, obj, l.dt, l.against)
        IN  /\ l.pc = "loop"
                 => [state |-> l.state, duration |-> l.duration]
                        = DifferenceLoop(filter, l.item - 1, l.dt, l.against)
            /\ l.pc = "returned"
                 => /\ l.fmt[1].states = alone.states
                    /\ l.fmt[1].obj.kind = obj.kind
                    /\ l.out # <<>> => l.out[1] = StateFormatterFormat(alone).str

\* C20: two difference invocations on one Approximator, interleaved at
\* any filter step, each build the collection and render the string they
\* build and render alone, and no step changes the filter list or the
\* configured renderer of the Approximator.
C20_CallsIndependent ==
    [][filter' = filter /\ obj' = obj /\ CallsAsAlone(calls')]_vars

\* Both invocations are inside the filter loop of Example 1, at different
\* filters and with different accumulators.
C20_Witness ==
    /\ filter = <<Relative, ApproximateTime, Round("Year"), Round("Month"), Round("Day")>>
    /\ DOMAIN calls = CallIds
    /\ calls[1].pc = "loop" /\ calls[1].item = 4
    /\ calls[2].pc = "loop" /\ calls[2].item = 5
    /\ calls[1].duration # calls[2].duration
    /\ calls[1].state # calls[2].state
    /\ obj \in Generators

\* A query of the kind op has been answered.
Answered(op) == answer # <<>> /\ answer[1].op = op

\* C21: highest returns the first unit, in Year-to-Second order, whose
\* within holds; it returns none only for a duration under 60 seconds, so
\* some unit for every duration of 60 seconds or more.
C21_HighestTotal ==
    Answered("highest")
        => LET q == answer[1]
               abs == absolute_duration(q.dt, q.dt2)
           IN  /\ q.val # <<>>
                    => /\ within(q.val[1], q.dt, q.dt2)
                       /\ \A b \in TimeBoundary :
                             TimeBoundaryOrd(b) > TimeBoundaryOrd(q.val[1])
                                => ~within(b, q.dt, q.dt2)
               /\ q.val = <<>> => num_seconds(abs) < 60
               /\ num_seconds(abs) >= 60 => q.val # <<>>

\* C22: within for Day is true exactly when the absolute duration is more
\* than 86400 seconds and less than 30 days.
C22_DayWithin ==
    (Answered("within") /\ answer[1].unit = "Day")
        => LET q == answer[1]
               abs == absolute_duration(q.dt, q.dt2)
           IN  q.val <=> (DurationGt(abs, seconds(86400)) /\ DurationGt(days(30), abs))

\* C23: over any sequence of parse(), format() and format_parsed() calls
\* on one StateFormatter the buffer of the renderer is empty or holds the
\* Value and InPast states of the collection once, and a string returned
\* is the string returned before.
C23_IngestsOnce ==
    [][pc' = "returned"
        => /\ fmt'.obj.formats \in {<<>>, SelectSeq(fmt'.states, IsValueOrInPast)}
           /\ (out # <<>> /\ out' # <<>>) => out' = out]_vars

\* C24: a character other than %, { and } read in the match state outside
\* a brace span is added to the output and nothing else changes, the match
\* state included; so "%x{ago}" is accepted and gives x followed by the
\* translation of ago, and "%a%" gives "a%".
C24_LiteralAfterPercent ==
    [][/\ (/\ ScanNext
            /\ template[pos] \notin {"%", "{", "}"}
            /\ scan.in_match /\ ~scan.in_brace)
            => /\ result' = <<>>
               /\ scan' = [scan EXCEPT !.s = scan.s \o <<template[pos]>>]
               /\ scan'.in_match
       /\ (ScanFinish /\ template = <<"%", "x", "{", "a", "g", "o", "}">>)
            => result' = <<Ok(<<"x">> \o (IF "Ago" \in DOMAIN map THEN map["Ago"] ELSE <<>>))>>
       /\ (ScanFinish /\ template = <<"%", "a", "%">>)
            => result' = <<Ok(<<"a", "%">>)>>]_vars

\* "%x{ago}" has been translated to "xago".
C24_Witness ==
    /\ template = <<"%", "x", "{", "a", "g", "o", "}">>
    /\ map = DEFAULT_TRANSLATION
    /\ result = <<Ok(<<"x", "a", "g", "o">>)>>

\* C30: at every step of the scan in_brace implies in_match, and the
\* capture buffer is empty whenever the scanner is not in a brace span.
C30_ScannerStates ==
    /\ scan.in_brace => scan.in_match
    /\ ~scan.in_brace => scan.cap = <<>>
    /\ <<scan.in_match, scan.in_brace>> \in {<<FALSE, FALSE>>, <<TRUE, FALSE>>, <<TRUE, TRUE>>}

\* The scanner is inside a brace span with a word captured, and has been
\* after % and outside before.
C30_Witness ==
    /\ pos = 5
    /\ SubSeq(template, 1, 4) = <<"%", "{", "a", "n">>
    /\ scan.in_brace /\ scan.in_match
    /\ scan.cap = <<"a", "n">>
    /\ result = <<>>

\* C25: for every word of the vocabulary (Suffix(n) for n in 0..9 only)
\* parsing its spelling gives the word back and no other word of the
\* vocabulary has the same spelling; a string parses only if it is, to the
\* character, the spelling of a word of the vocabulary, and then to that
\* word.
C25_WordsRoundTrip ==
    /\ (Answered("to_string") /\ answer[1].word \in Vocabulary)
         => \A w \in Vocabulary :
               w # answer[1].word => WordsDisplay(w) # answer[1].val
    /\ Answered("from_str")
         => /\ (answer[1].of # <<>> /\ answer[1].of[1] \in Vocabulary)
                 => answer[1].val = answer[1].of
            /\ answer[1].val # <<>>
                 <=> \E w \in Vocabulary : WordsDisplay(w) = answer[1].str
            /\ answer[1].val # <<>> => WordsDisplay(answer[1].val[1]) = answer[1].str

\* "suffix_7" has been spelled from Suffix(7) and parsed back.
C25_Witness ==
    /\ Answered("from_str")
    /\ answer[1].str = <<"s", "u", "f", "f", "i", "x", "_", "7">>
    /\ answer[1].of = <<"Suffix(7)">>
    /\ answer[1].val = <<"Suffix(7)">>

\* The words of the placeholders of str: what stands between a %{ and the
\* first } behind it.
PlaceholderWords(str) ==
    {SubSeq(str, i + 2, j - 1) :
        <<i, j>> \in {<<a, b>> \in (1..Len(str)) \X (1..Len(str)) :
                        /\ a + 1 < b
                        /\ str[a] = "%" /\ str[a + 1] = "{" /\ str[b] = "}"
                        /\ \A k \in (a + 2)..(b - 1) : str[k] # "}"}}

\* C26: every template a generator has rendered is accepted by
\* Translator::format, at the end of time_diff! and otherwise, and every
\* placeholder word in it parses to a word that the default table has.
C26_TemplatesAccepted ==
    /\ pc = "translated" => (result # <<>> /\ result[1].ok)
    /\ out # <<>>
         => /\ TranslatorFormat(DEFAULT_TRANSLATION, out[1]).ok
            /\ \A word \in PlaceholderWords(out[1]) :
                  /\ WordsFromStr(word) # <<>>
                  /\ WordsFromStr(word)[1] \in DOMAIN DEFAULT_TRANSLATION

\* time_diff! on Example 1 has returned its sentence.
C26_Witness ==
    /\ pc = "translated"
    /\ result = <<Ok(<<"4", "5", " ", "y", "e", "a", "r", "s", ",", " ", "9", " ", "m", "o", "n", "t", "h", "s", " ", "a", "n", "d", " ", "1", "7", " ", "d", "a", "y", "s", " ", "a", "g", "o">>)>>

\* C27: the coarse rendering under [Relative, Round(Month), Round(Day)] is
\* the coarse rendering of the same call under
\* [Round(Month), Round(Day), Relative].
C27_RelativePositionIrrelevant ==
    (CoarseRendered /\ filter = <<Relative, Round("Month"), Round("Day")>>)
        => out[1] = StateFormatterFormat(
                        difference(<<Round("Month"), Round("Day"), Relative>>,
                                   obj, dt, against)).str

\* The greatest count a full scan gives a unit; none for Year.
CountLimit(b) ==
    CASE b = "Month" -> <<12>>
      [] b = "Week" -> <<4>>
      [] b = "Day" -> <<6>>
      [] b = "Hour" -> <<23>>
      [] b = "Minute" -> <<59>>
      [] b = "Second" -> <<59>>
      [] OTHER -> <<>>

\* C28: in a TopRounds(7) step every Value pushed has a count of at least
\* 1, and of at most 12 for Month, 4 for Week, 6 for Day, 23 for Hour, 59
\* for Minute and 59 for Second.
C28_FullScanCounts ==
    [][(Step /\ AtFilter("TopRounds") /\ filter[item].count = Len(all))
        => \A k \in 1..Len(Pushed) :
              /\ Pushed[k].type = "Value"
              /\ Pushed[k].count >= 1
              /\ CountLimit(Pushed[k].unit) # <<>>
                    => Pushed[k].count <= CountLimit(Pushed[k].unit)[1]]_vars

\* A full scan of one tick less than 365 days: 12 months, 4 days, 23
\* hours, 59 minutes, 59 seconds.
C28_Witness ==
    /\ filter = <<TopRounds(Len(all))>>
    /\ pc = "loop" /\ item = 2
    /\ Len(state) = 7
    /\ state[3] = Value("Month", 12)
    /\ state[4] = Value("Day", 4)
    /\ state[5] = Value("Hour", 23)
    /\ state[6] = Value("Minute", 59)
    /\ state[7] = Value("Second", 59)

\* C29: a filter step never makes the accumulator greater or negative; a
\* Round(b) step leaves it under the length of b, and a Round(b) step
\* directly behind a Round(b) step pushes nothing.
C29_RoundLeavesRemainder ==
    [][Step
        => LET f == filter[item]
           IN  /\ ~DurationGt(duration', duration)
               /\ ~DurationGt(seconds(0), duration')
               /\ f.kind = "Round"
                    => DurationGt(seconds(UnitSeconds(f.relative)), duration')
               /\ (/\ f.kind = "Round"
                   /\ item > 1
                   /\ filter[item - 1].kind = "Round"
                   /\ filter[item - 1].relative = f.relative)
                    => (state' = state /\ duration' = duration)]_vars

\* Round(Month) twice on 2 months 26 days: one Value, 26 days left.
C29_Witness ==
    /\ filter = <<Round("Month"), Round("Month")>>
    /\ pc = "loop" /\ item = 3
    /\ Len(state) = 3
    /\ state[3] = Value("Month", 2)
    /\ duration = days(26)

====
